---- MODULE Spec2Model ----
(***************************************************************************)
(* Model of the election report program (src/src/main.rs): one run of      *)
(* `main` loads the poll rows of every CSV file, sorts them, fuses         *)
(* neighbouring polls, builds the ridings and prints one report.           *)
(*                                                                         *)
(* Abstractions:                                                           *)
(*  - Party is the source's enum restricted to three of its variants, in   *)
(*    declaration order; one unknown party label stands for every label    *)
(*    serde rejects.                                                       *)
(*  - an f32 ratio a/b is the pair [num |-> a, den |-> b]; it is NaN when  *)
(*    a = b = 0.  Comparisons of non-NaN ratios are by cross product.      *)
(*  - a HashMap is a function over its key set together with `iter`, the   *)
(*    order in which this map instance iterates; the order is picked       *)
(*    nondeterministically when the map is built (RandomState).            *)
(*  - usize arithmetic is unbounded: 64-bit sums of vote counts never      *)
(*    overflow within the bounds.                                          *)
(***************************************************************************)
EXTENDS Integers, Sequences, FiniteSets, TLC

\* ---------------------------------------------------------------- bounds
MaxRows == 2
MaxVotes == 1

\* ------------------------------------------------------------ vocabulary
\* Byte-lexicographic order of every string the model uses.
Alphabet == <<"A", "B", "F", "R1", "R2">>
RidingNames == {"R1", "R2"}
LastNames == {"A", "B"}
FirstNames == {"F"}
Votes == 0..MaxVotes

\* enum Party, declaration order (derive(Ord) orders by declaration).
Party == <<"LIB", "CON", "PPC">>
Parties == {Party[i] : i \in 1..Len(Party)}
PartyOrd(p) == CHOOSE i \in 1..Len(Party) : Party[i] = p

\* serde names of the variants; every other label is a parse error.
PartyLabels == {"Liberal", "Conservative", "People's Party"}
UnknownLabel == "Whig"
Labels == PartyLabels \cup {UnknownLabel}
DeserializeParty(label) ==
  CASE label = "Liberal" -> "LIB"
    [] label = "Conservative" -> "CON"
    [] label = "People's Party" -> "PPC"
    [] OTHER -> "Err"

\* A raw CSV row, before deserialization.
Rows == [riding : RidingNames, party : Labels, last_name : LastNames,
         first_name : FirstNames, votes : Votes]

\* csv deserialize::<Poll>() of one row: a Poll, or Err.
RowOk(row) == DeserializeParty(row.party) # "Err"
DeserializePoll(row) == [row EXCEPT !.party = DeserializeParty(row.party)]

SeqsUpTo(S, n) == UNION {[1..k -> S] : k \in 0..n}
Front(s) == SubSeq(s, 1, Len(s) - 1)
Last(s) == s[Len(s)]
Perms(S) ==
  {s \in [1..Cardinality(S) -> S] : \A x \in S : \E i \in DOMAIN s : s[i] = x}

RECURSIVE SumSeq(_)
SumSeq(s) == IF s = <<>> THEN 0 ELSE SumSeq(Front(s)) + Last(s)

\* --------------------------------------------------------------- Poll
StrRank(s) == CHOOSE i \in 1..Len(Alphabet) : Alphabet[i] = s
StrCmp(a, b) ==
  IF StrRank(a) < StrRank(b) THEN "Less"
  ELSE IF StrRank(a) > StrRank(b) THEN "Greater" ELSE "Equal"
PartyCmp(a, b) ==
  IF PartyOrd(a) < PartyOrd(b) THEN "Less"
  ELSE IF PartyOrd(a) > PartyOrd(b) THEN "Greater" ELSE "Equal"

\* impl Ord for Poll
cmp(self, other) ==
  LET r == StrCmp(self.riding, other.riding) IN
  IF r = "Equal"
  THEN LET p == PartyCmp(self.party, other.party) IN
       IF p = "Equal" THEN StrCmp(self.last_name, other.last_name) ELSE p
  ELSE r

\* Poll::fuse
fuse_KeepSelf(self, other) == self
fuse(self, other) == [self EXCEPT !.votes = self.votes + other.votes]

\* polls.sort(): stable; slices this short are insertion-sorted.
RECURSIVE InsertTail(_, _)
InsertTail(s, x) ==
  IF s = <<>> THEN <<x>>
  ELSE IF cmp(x, Last(s)) = "Less"
       THEN Append(InsertTail(Front(s), x), Last(s))
       ELSE Append(s, x)
RECURSIVE sort(_)
sort(s) == IF s = <<>> THEN <<>> ELSE InsertTail(sort(Front(s)), Last(s))

\* itertools group_by(|poll| poll.party.clone()): maximal runs of
\* consecutive polls with one party, as a sequence of groups.
RECURSIVE GroupByParty(_)
GroupByParty(s) ==
  IF s = <<>> THEN <<>>
  ELSE LET gs == GroupByParty(Front(s)) IN
       IF gs # <<>> /\ Last(gs)[1].party = Last(s).party
       THEN Append(Front(gs), Append(Last(gs), Last(s)))
       ELSE Append(gs, <<Last(s)>>)

\* group.reduce(|a, b| a.fuse(b)) of a non-empty group
RECURSIVE Reduce_FoldFromFirst(_)
Reduce_FoldFromFirst(g) ==
  IF Len(g) = 1 THEN fuse(g[1], g[1])
  ELSE fuse(Reduce_FoldFromFirst(Front(g)), Last(g))
RECURSIVE Reduce(_)
Reduce(g) == IF Len(g) = 1 THEN g[1] ELSE fuse(Reduce(Front(g)), Last(g))

\* main, lines 278-284: the fused poll list
Unify(polls) ==
  LET gs == GroupByParty(polls) IN [i \in 1..Len(gs) |-> Reduce(gs[i])]

\* ------------------------------------------------------- Riding, ridings
\* group_by(|poll| poll.riding.clone())
RECURSIVE GroupByRiding(_)
GroupByRiding(s) ==
  IF s = <<>> THEN <<>>
  ELSE LET gs == GroupByRiding(Front(s)) IN
       IF gs # <<>> /\ Last(gs)[1].riding = Last(s).riding
       THEN Append(Front(gs), Append(Last(gs), Last(s)))
       ELSE Append(gs, <<Last(s)>>)

\* collect() of the (Party, Candidate) pairs of one group into a HashMap:
\* a later pair replaces an earlier one with the same key.
Candidates(g) ==
  [p \in {g[i].party : i \in DOMAIN g} |->
     LET i == CHOOSE i \in DOMAIN g :
                /\ g[i].party = p
                /\ \A j \in DOMAIN g : g[j].party = p => j <= i
     IN [last_name |-> g[i].last_name, first_name |-> g[i].first_name,
         votes |-> g[i].votes]]

\* fn ridings: every sequence of Ridings the call can return; they differ
\* only in the iteration order of each candidates map.
RECURSIVE RidingSeqs(_)
RidingSeqs(gs) ==
  IF gs = <<>> THEN {<<>>}
  ELSE LET g == Last(gs)
           c == Candidates(g)
       IN {Append(rs, [name |-> g[1].riding, candidates |-> c, iter |-> o]) :
             rs \in RidingSeqs(Front(gs)), o \in Perms(DOMAIN c)}
ridings(polls) == RidingSeqs(GroupByRiding(polls))

\* candidates.iter() / values(): the votes in iteration order
VotesOf(riding) ==
  [i \in DOMAIN riding.iter |-> riding.candidates[riding.iter[i]].votes]

\* Riding::winner: max_by returns the last maximal element of the iteration.
winner(riding) ==
  LET vs == VotesOf(riding)
      i == CHOOSE i \in DOMAIN vs :
             /\ \A j \in DOMAIN vs : vs[j] <= vs[i]
             /\ \A j \in DOMAIN vs : vs[j] = vs[i] => j <= i
  IN riding.iter[i]

\* Riding::was_winner
was_winner(riding, party) == party = winner(riding)

\* Riding::total_votes
total_votes(riding) == SumSeq(VotesOf(riding))

\* votes.sort_by(|a, b| b.cmp(&a)): descending
RECURSIVE InsertDesc(_, _)
InsertDesc(s, x) ==
  IF s = <<>> THEN <<x>>
  ELSE IF x > Last(s) THEN Append(InsertDesc(Front(s), x), Last(s))
       ELSE Append(s, x)
RECURSIVE SortDesc(_)
SortDesc(s) == IF s = <<>> THEN <<>> ELSE InsertDesc(SortDesc(Front(s)), Last(s))

\* Riding::victory_margin indexes votes[0] and votes[1]: it panics on a
\* riding with fewer than two candidates.
MarginPanics(riding) == Len(riding.iter) < 2
victory_margin(riding) ==
  LET votes == SortDesc(VotesOf(riding))
  IN [num |-> votes[1] - votes[2], den |-> SumSeq(votes)]

\* ----------------------------------------------------------- f32 ratios
IsNaN(r) == r.den = 0 /\ r.num = 0
\* a.partial_cmp(&b).unwrap_or(Ordering::Less) = Less
RatioLess(a, b) ==
  IF IsNaN(a) \/ IsNaN(b) THEN TRUE
  ELSE a.num * b.den < b.num * a.den

\* results.sort_by(|a, b| a.ratio.partial_cmp(&b.ratio).unwrap_or(Less))
RECURSIVE InsertByRatio(_, _)
InsertByRatio(s, x) ==
  IF s = <<>> THEN <<x>>
  ELSE IF RatioLess(x.ratio, Last(s).ratio)
       THEN Append(InsertByRatio(Front(s), x), Last(s))
       ELSE Append(s, x)
RECURSIVE SortByRatio(_)
SortByRatio(s) ==
  IF s = <<>> THEN <<>> ELSE InsertByRatio(SortByRatio(Front(s)), Last(s))

\* margins.sort_by(|a, b| a.margin.partial_cmp(&b.margin).unwrap_or(Less))
RECURSIVE InsertByMargin(_, _)
InsertByMargin(s, x) ==
  IF s = <<>> THEN <<x>>
  ELSE IF RatioLess(x.margin, Last(s).margin)
       THEN Append(InsertByMargin(Front(s), x), Last(s))
       ELSE Append(s, x)
RECURSIVE SortByMargin(_)
SortByMargin(s) ==
  IF s = <<>> THEN <<>> ELSE InsertByMargin(SortByMargin(Front(s)), Last(s))

RECURSIVE FilterSeq(_, _)
FilterSeq(s, keep) ==
  IF s = <<>> THEN <<>>
  ELSE IF Len(s) \in keep THEN Append(FilterSeq(Front(s), keep), Last(s))
       ELSE FilterSeq(Front(s), keep)

\* -------------------------------------------------------------- reports
\* fn ppc_con: the ComboVictory records, in riding order
ppc_con_AllowEqual(rs) ==
  LET keep == {i \in DOMAIN rs :
                 LET cs == rs[i].candidates IN
                 /\ ~was_winner(rs[i], "CON")
                 /\ "CON" \in DOMAIN cs /\ "PPC" \in DOMAIN cs
                 /\ cs["CON"].votes + cs["PPC"].votes >= cs[winner(rs[i])].votes}
      rec == [i \in DOMAIN rs |->
                LET cs == rs[i].candidates
                    w == winner(rs[i])
                IN IF i \in keep
                   THEN [riding |-> rs[i].name, winner |-> w,
                         winner_votes |-> cs[w].votes,
                         con_ppc_votes |-> cs["CON"].votes + cs["PPC"].votes,
                         difference |->
                           (cs["CON"].votes + cs["PPC"].votes) - cs[w].votes]
                   ELSE <<>>]
  IN FilterSeq(rec, keep)
ppc_con(rs) ==
  LET keep == {i \in DOMAIN rs :
                 LET cs == rs[i].candidates IN
                 /\ ~was_winner(rs[i], "CON")
                 /\ "CON" \in DOMAIN cs /\ "PPC" \in DOMAIN cs
                 /\ cs["CON"].votes + cs["PPC"].votes > cs[winner(rs[i])].votes}
      rec == [i \in DOMAIN rs |->
                LET cs == rs[i].candidates
                    w == winner(rs[i])
                IN IF i \in keep
                   THEN [riding |-> rs[i].name, winner |-> w,
                         winner_votes |-> cs[w].votes,
                         con_ppc_votes |-> cs["CON"].votes + cs["PPC"].votes,
                         difference |->
                           (cs["CON"].votes + cs["PPC"].votes) - cs[w].votes]
                   ELSE <<>>]
  IN FilterSeq(rec, keep)

\* fn totals, lines 416-428: the two accumulator maps after the loop
VotesMap(rs) ==
  [p \in UNION {DOMAIN rs[i].candidates : i \in DOMAIN rs} |->
     SumSeq([i \in DOMAIN rs |->
               IF p \in DOMAIN rs[i].candidates
               THEN rs[i].candidates[p].votes ELSE 0])]
SeatsMap_NoIncrement(rs) == [p \in {winner(rs[i]) : i \in DOMAIN rs} |-> 0]
SeatsMap(rs) ==
  [p \in {winner(rs[i]) : i \in DOMAIN rs} |->
     Cardinality({i \in DOMAIN rs : winner(rs[i]) = p})]

\* fn totals, lines 430-439: the VoteCount records when the votes map
\* iterates in the order `order`
totals(rs, order) ==
  LET votes == VotesMap(rs)
      seats == SeatsMap(rs)
      total_votes_ == SumSeq([i \in DOMAIN order |-> votes[order[i]]])
  IN [i \in DOMAIN order |->
        [seats |-> IF order[i] \in DOMAIN seats THEN seats[order[i]] ELSE 0,
         party |-> order[i],
         votes |-> votes[order[i]],
         ratio |-> [num |-> votes[order[i]], den |-> total_votes_]]]

\* fn party_results
party_results(rs, party) ==
  LET keep == {i \in DOMAIN rs : party \in DOMAIN rs[i].candidates}
      rec == [i \in DOMAIN rs |->
                IF i \in keep
                THEN LET c == rs[i].candidates[party]
                         total == (total_votes(rs[i]) - c.votes) + c.votes
                     IN [riding |-> rs[i].name, party |-> party,
                         last_name |-> c.last_name, first_name |-> c.first_name,
                         votes |-> c.votes,
                         ratio |-> [num |-> c.votes, den |-> total],
                         won |-> was_winner(rs[i], party)]
                ELSE <<>>]
  IN SortByRatio(FilterSeq(rec, keep))

\* fn victory_margins, when no riding makes victory_margin panic
victory_margins(rs) ==
  SortByMargin([i \in DOMAIN rs |->
                  [winner |-> winner(rs[i]), riding |-> rs[i].name,
                   margin |-> victory_margin(rs[i])]])

\* ------------------------------------------------------------------ state
VARIABLES
  args,     \* the parsed command line: the report to print
  rows,     \* the rows of the CSV files of the data directory, in read order
  pc,       \* "start", "done" (Ok), "error" (main returned Err), "panic"
  polls,    \* main's `polls` after polls.sort()
  unified,  \* main's `unified`
  rids,     \* the Vec<Riding> the report built
  out,      \* the lines printed on standard output
  run,      \* which run of the program this is
  first     \* what the first run ended with, once a second run started

vars == <<args, rows, pc, polls, unified, rids, out, run, first>>

ArgsSet ==
  {[mode |-> m, party |-> "None"] : m \in {"total", "conppc", "margins", "none"}}
    \cup {[mode |-> "party", party |-> p] : p \in Parties}

NoFirst == [pc |-> "start", out |-> <<>>]

Init ==
  /\ args \in ArgsSet
  /\ rows \in SeqsUpTo(Rows, MaxRows)
  /\ pc = "start"
  /\ polls = <<>>
  /\ unified = <<>>
  /\ rids = <<>>
  /\ out = <<>>
  /\ run = 1
  /\ first = NoFirst

\* lines 268-273: every row deserialized, or the first Err returned by `?`
AllRowsOk == \A i \in DOMAIN rows : RowOk(rows[i])
Loaded == [i \in DOMAIN rows |-> DeserializePoll(rows[i])]

\* main returns Err: a row failed to deserialize
LoadError ==
  /\ pc = "start"
  /\ ~AllRowsOk
  /\ pc' = "error"
  /\ UNCHANGED <<args, rows, polls, unified, rids, out, run, first>>

\* lines 275-284, shared by every successful run
SortAndFuse ==
  /\ pc = "start"
  /\ AllRowsOk
  /\ polls' = sort(Loaded)
  /\ unified' = Unify(polls')
  /\ UNCHANGED <<args, rows, run, first>>

\* main --total
Totals ==
  /\ args.mode = "total"
  /\ SortAndFuse
  /\ \E rs \in ridings(unified') :
       \E order \in Perms(DOMAIN VotesMap(rs)) :
         /\ rids' = rs
         /\ out' = <<totals(rs, order)>>
  /\ pc' = "done"

\* main --conppc
PpcCon ==
  /\ args.mode = "conppc"
  /\ SortAndFuse
  /\ \E rs \in ridings(unified') :
       /\ rids' = rs
       /\ out' = <<ppc_con(rs)>>
  /\ pc' = "done"

\* main --margins
VictoryMargins ==
  /\ args.mode = "margins"
  /\ SortAndFuse
  /\ \E rs \in ridings(unified') :
       /\ rids' = rs
       /\ IF \E i \in DOMAIN rs : MarginPanics(rs[i])
          THEN pc' = "panic" /\ out' = <<>>
          ELSE pc' = "done" /\ out' = <<victory_margins(rs)>>

\* main --party P
PartyResults ==
  /\ args.mode = "party"
  /\ SortAndFuse
  /\ \E rs \in ridings(unified') :
       /\ rids' = rs
       /\ out' = <<party_results(rs, args.party)>>
  /\ pc' = "done"

\* main without a report flag: nothing is built or printed
NoReport ==
  /\ args.mode = "none"
  /\ SortAndFuse
  /\ rids' = <<>>
  /\ out' = <<>>
  /\ pc' = "done"

\* The same command is run again on the same data.
Rerun ==
  /\ pc # "start"
  /\ run = 1
  /\ first' = [pc |-> pc, out |-> out]
  /\ run' = 2
  /\ pc' = "start"
  /\ polls' = <<>>
  /\ unified' = <<>>
  /\ rids' = <<>>
  /\ out' = <<>>
  /\ UNCHANGED <<args, rows>>

Next ==
  \/ LoadError
  \/ Totals
  \/ PpcCon
  \/ VictoryMargins
  \/ PartyResults
  \/ NoReport

Spec == Init /\ [][Next]_vars

NextTwoRuns ==
  \/ Next
  \/ Rerun

SpecTwoRuns == Init /\ [][NextTwoRuns]_vars

\* ----------------------------------------------------------- properties
\* main got past the load: the polls were sorted and fused
Fused == pc \in {"done", "panic"}
\* the report built its ridings
Built == Fused /\ args.mode # "none"
SumVotes(s) == SumSeq([i \in DOMAIN s |-> s[i].votes])
SameTriple(a, b) ==
  a.riding = b.riding /\ a.party = b.party /\ a.last_name = b.last_name
SumOver(s, idx) == SumSeq([i \in DOMAIN s |-> IF i \in idx THEN s[i].votes ELSE 0])

\* C1: after sort and fusion, every (riding, party, last name) triple of the
\* valid raw rows has exactly one Poll in the fused list, and that Poll's votes
\* are the sum of the votes of the raw rows with the triple.
C1_FusionByTriple ==
  Fused =>
    \A i \in DOMAIN Loaded :
      LET hits == {j \in DOMAIN unified : SameTriple(unified[j], Loaded[i])}
          raw == {k \in DOMAIN Loaded : SameTriple(Loaded[k], Loaded[i])}
      IN /\ Cardinality(hits) = 1
         /\ \A j \in hits : unified[j].votes = SumOver(Loaded, raw)

\* C2: conservation: the votes of the fused Polls sum to the votes of the
\* raw rows.
C2_Conservation == Fused => SumVotes(unified) = SumVotes(Loaded)
C2_Witness ==
  Fused /\ Len(unified) < Len(rows) /\ SumVotes(unified) > MaxVotes

\* C3: every riding name of the raw rows gets exactly one Riding, and in it
\* the candidate of party p has the votes of the raw rows of that riding and
\* party, and only parties with such rows have a candidate.
C3_RidingAttribution ==
  Built =>
    /\ \A r \in {Loaded[i].riding : i \in DOMAIN Loaded} :
         Cardinality({i \in DOMAIN rids : rids[i].name = r}) = 1
    /\ \A i \in DOMAIN rids : \A p \in Parties :
         LET raw == {k \in DOMAIN Loaded :
                       Loaded[k].riding = rids[i].name /\ Loaded[k].party = p}
         IN IF raw = {} THEN p \notin DOMAIN rids[i].candidates
            ELSE /\ p \in DOMAIN rids[i].candidates
                 /\ rids[i].candidates[p].votes = SumOver(Loaded, raw)

\* The party the tie-break by enumeration order names: the first party, in
\* declaration order, among those with the greatest vote count.
FirstMaxInEnumOrder(riding) ==
  LET cs == riding.candidates
      best == {p \in DOMAIN cs : \A q \in DOMAIN cs : cs[q].votes <= cs[p].votes}
  IN CHOOSE p \in best : \A q \in best : PartyOrd(p) <= PartyOrd(q)

\* C4: winner() is the party with the greatest vote count, on a tie the first
\* such party in enumeration order whatever the map's iteration order, and
\* was_winner(p) holds exactly for p = winner().
C4_WinnerEnumOrder ==
  Built =>
    \A i \in DOMAIN rids :
      /\ winner(rids[i]) = FirstMaxInEnumOrder(rids[i])
      /\ \A p \in Parties : was_winner(rids[i], p) <=> p = winner(rids[i])

\* a <= b for ratios that are not NaN
RatioLeq(a, b) == a.num * b.den <= b.num * a.den

\* C5: the margins report never crashes; it has exactly one record for every
\* riding with at least two candidates, none for the others, in ascending
\* order of margin.
C5_MarginsSkipSmallRidings ==
  (args.mode = "margins" /\ pc \notin {"start", "error"}) =>
    /\ pc = "done"
    /\ Len(out) = 1
    /\ \A i \in DOMAIN rids :
         Cardinality({j \in DOMAIN out[1] : out[1][j].riding = rids[i].name})
           = IF Cardinality(DOMAIN rids[i].candidates) >= 2 THEN 1 ELSE 0
    /\ \A j, k \in DOMAIN out[1] :
         j < k => RatioLeq(out[1][j].margin, out[1][k].margin)

\* C6: a row that fails to parse is dropped and the run goes on: the run
\* never ends in an error because of it, and the selected report is printed.
C6_BadRowDropped ==
  (pc # "start" /\ ~AllRowsOk) =>
    /\ pc # "error"
    /\ args.mode # "none" => Len(out) = 1

\* C7: two runs of one report on the same rows end the same way and print
\* the same records in the same order.
C7_Deterministic ==
  (run = 2 /\ pc # "start") => (pc = first.pc /\ out = first.out)

\* the greatest vote count of a riding
TopVotes(riding) ==
  CHOOSE v \in {riding.candidates[p].votes : p \in DOMAIN riding.candidates} :
    \A p \in DOMAIN riding.candidates : riding.candidates[p].votes <= v
\* the condition under which C8 says a ComboVictory is emitted
Swings(riding) ==
  LET cs == riding.candidates IN
  /\ winner(riding) # "CON"
  /\ "CON" \in DOMAIN cs /\ "PPC" \in DOMAIN cs
  /\ cs["CON"].votes + cs["PPC"].votes > TopVotes(riding)

TotalsRecords ==
  LET recs == out[1]
      withCand(p) == {i \in DOMAIN rids : p \in DOMAIN rids[i].candidates}
  IN /\ \A p \in Parties :
          Cardinality({j \in DOMAIN recs : recs[j].party = p})
            = IF withCand(p) = {} THEN 0 ELSE 1
     /\ \A j \in DOMAIN recs :
          /\ recs[j].votes
               = SumSeq([i \in DOMAIN rids |->
                           IF i \in withCand(recs[j].party)
                           THEN rids[i].candidates[recs[j].party].votes ELSE 0])
          /\ recs[j].seats
               = Cardinality({i \in DOMAIN rids : winner(rids[i]) = recs[j].party})
          /\ recs[j].ratio.num = recs[j].votes
          /\ recs[j].ratio.den = SumVotes(recs)
     /\ SumSeq([j \in DOMAIN recs |-> recs[j].seats]) = Len(rids)
\* the ratios num/den of the records, all over one denominator, add up to 1
\* (no ratio is NaN and the numerators add up to the denominator)
RatiosSumToOne ==
  LET recs == out[1] IN
  /\ \A j \in DOMAIN recs : recs[j].ratio.den > 0
  /\ \A j \in DOMAIN recs :
       SumSeq([k \in DOMAIN recs |-> recs[k].ratio.num]) = recs[j].ratio.den

C10_FusionIdempotent == Fused => Unify(sort(unified)) = unified
C10_Witness ==
  Fused /\ unified # <<>> /\ Len(unified) < Len(rows) /\ SumVotes(unified) > 0

====
